---- MODULE Spec2Model ----
(***************************************************************************)
(* A model of microcline.py: the message box (Msgbox: wrapping append,     *)
(* bounded scrollback, paging, draw with staleness dimming) and the        *)
(* command box (Cmdbox: the key-by-key input loop of get, command history, *)
(* registered custom keys).                                                *)
(*                                                                         *)
(* Text is a sequence of characters; a character is a one-token string.    *)
(* The non-ASCII glyphs of the source are written as tokens:               *)
(*   "dot" for the ordinary sigil, "prompt" for the prompt sigil,          *)
(*   "cmd" for the command sigil, "err" for the error sigil.               *)
(*   "..." for the ellipsis of a command line longer than its panel;       *)
(*   "tab" stands for the whitespace characters other than the space.      *)
(* A curses style is the set of its attribute bits, so that the bitwise    *)
(* or of two styles is the union of the sets.                              *)
(***************************************************************************)
EXTENDS Integers, Sequences, FiniteSets, TLC

VARIABLES
  msgbox_w,              \* Msgbox.w
  msgbox_h,              \* Msgbox.h
  msgbox_history,        \* Msgbox.history, front (most recent Line) first
  msgbox_history_index,  \* Msgbox.history_index, the paging offset
  call,                  \* the append call in flight: position and locals
  produced,              \* history variable: the Lines produced, front first
  history_before,        \* history variable: msgbox_history when append was entered
  screen,                \* what the last Msgbox.draw put on the panel
  debug_mode,            \* Window.debug_mode
  chars,                 \* Cmdbox.chars
  cmdbox_history,        \* Cmdbox.history, front first
  custom_commands,       \* Cmdbox.custom_commands
  get_history_index,     \* history_index, the local of Cmdbox.get
  pc,                    \* where the program is: "idle", "reading", "crashed"
  command,               \* the value the last Cmdbox.get returned
  typed,                 \* history variable: keys read in this session
  invoked,               \* history variable: the key read last, if it is one
                         \* the application registers (0 if not), and the
                         \* callbacks the key loop called for it
  latest,                \* history variable: the callbacks registered per key
  submitted,             \* history variable: the buffers submitted, in order
  sessions,              \* history variable: calls of Cmdbox.get so far
  ops,                   \* history variable: operations performed so far
  cmdbox_screen,         \* what Cmdbox.draw wrote to its panel, and whether
                         \* a refresh of the panel followed
  limits                 \* how much the environment does: sessions started,
                         \* operations performed, characters typed on a line

vars == <<msgbox_w, msgbox_h, msgbox_history, msgbox_history_index, call,
          produced, history_before, screen, debug_mode, chars, cmdbox_history,
          custom_commands, get_history_index, pc, command, typed, invoked,
          latest, submitted, sessions, ops, cmdbox_screen, limits>>

msgboxVars == <<msgbox_history, msgbox_history_index, call, produced,
                history_before, screen>>
cmdboxVars == <<chars, cmdbox_history, custom_commands, get_history_index,
                command, typed, invoked, latest, submitted, sessions>>

-----------------------------------------------------------------------------
(* Bounds of the model *)

MaxWidth == 5
MaxHeight == 3
MaxText == 4
MaxChunks == 2
GhostExtra == 2
MaxOps == 5
LongLen == 11
MaxSessions == 2
MaxRecall == 3
MaxWord == 7
MaxChars == 2
MaxSide == 3
\* the key log of a session is kept up to this many keys
MaxTyped == 3

-----------------------------------------------------------------------------
(* Styles, glyphs, characters *)

A_NORMAL == {}
A_BOLD == {"bold"}
A_DIM == {"dim"}

SigilPlain == "dot"
SigilPrompt == "prompt"
SigilCommand == "cmd"
SigilError == "err"

\* The characters str.lstrip() removes.
Whitespace == {" ", "tab"}

Min(a, b) == IF a < b THEN a ELSE b
Max(a, b) == IF a > b THEN a ELSE b

-----------------------------------------------------------------------------
(* Python string operations *)

\* s[:n], with Python's reading of a negative n
Take(s, n) ==
  LET stop == IF n >= 0 THEN Min(n, Len(s)) ELSE Max(Len(s) + n, 0)
  IN SubSeq(s, 1, stop)

\* s[n:], with Python's reading of a negative n
Drop(s, n) ==
  LET start == IF n >= 0 THEN Min(n, Len(s)) ELSE Max(Len(s) + n, 0)
  IN SubSeq(s, start + 1, Len(s))

\* s.lstrip()
RECURSIVE LStrip(_)
LStrip(s) ==
  IF s # <<>> /\ Head(s) \in Whitespace THEN LStrip(Tail(s)) ELSE s

\* s.rfind(c): the 0-based index of the rightmost c in s, or -1
RFind(s, c) ==
  LET hits == {i \in 1..Len(s) : s[i] = c}
  IN IF hits = {} THEN -1
     ELSE (CHOOSE i \in hits : \A j \in hits : j <= i) - 1

-----------------------------------------------------------------------------
(* collections.deque(maxlen=...) *)

\* (mutant) a full deque gives up its front entry instead of its oldest
DequeAppendLeftKeepsOldest(d, x, maxlen) ==
  IF Len(d) < maxlen THEN <<x>> \o d ELSE <<x>> \o SubSeq(d, 2, Len(d))

\* d.appendleft(x) on a deque of the given maxlen: the oldest entry (the
\* last) is discarded when the deque is full
DequeAppendLeft(d, x, maxlen) ==
  SubSeq(<<x>> \o d, 1, Min(Len(d) + 1, maxlen))

\* d[0].append(chunk)
FrontAppend(d, chunk) ==
  [d EXCEPT ![1] = Append(@, chunk)]

\* The record of produced Lines with one more Line put at its front; it
\* keeps the `kept` most recent ones.
Recorded(prod, line, kept) ==
  SubSeq(<<line>> \o prod, 1, Min(Len(prod) + 1, kept))

-----------------------------------------------------------------------------
(* Msgbox *)

HistoryScale == 10

\* maxlen of Msgbox.history
MsgCapacity == msgbox_h * HistoryScale

\* Msgbox.page_size
PageSize == msgbox_h \div 3

\* How many produced Lines the history variable `produced` keeps: more than
\* the scrollback can hold, so that a discarded Line is still on record.
ProducedKept == MsgCapacity + GhostExtra

Chunk(text, style) == [text |-> text, style |-> style]

\* The arguments of append: a bare string, a (text, style) tuple, or a value
\* of another type.
StrArg(text) == [kind |-> "str", text |-> text, style |-> A_NORMAL]
TupleArg(text, style) == [kind |-> "tuple", text |-> text, style |-> style]
OtherArg == [kind |-> "other", text |-> <<>>, style |-> A_NORMAL]

\* No append call in flight.  `at` is the position of a call: "fetch" at the
\* head of the for statement, "loop" at the head of the while loop,
\* "returned" and "raised" once the call is over; `error` is what it raised;
\* `chunks` and `sigil` are the arguments of the call.
IdleCall == [at |-> "idle", todo |-> <<>>, phrase |-> <<>>, style |-> A_NORMAL,
             line_position |-> 0, error |-> "none",
             chunks |-> <<>>, sigil |-> SigilPlain]

\* (mutant) the remaining space counted one column too wide
RemainingSpaceOffByOne(w, line_position) == w - line_position + 1

\* remaining_space = self.w - line_position
RemainingSpace(w, line_position) == w - line_position

\* The first statements of append: the sigil line goes to the front of the
\* history and line_position starts at 2.  A frame m holds the history,
\* the record of produced Lines and the locals of the call.
AppendEnter(hist, prod, chunks, sigil) ==
  LET first == <<Chunk(<<sigil, " ">>, A_NORMAL)>>
  IN [history |-> DequeAppendLeft(hist, first, MsgCapacity),
      produced |-> Recorded(prod, first, ProducedKept),
      at |-> "fetch", todo |-> chunks, phrase |-> <<>>, style |-> A_NORMAL,
      line_position |-> 2, error |-> "none"]

\* (mutant) the style of a chunk is not taken: the phrase keeps the style
\* of the chunk before it
FetchChunkKeepsStyle(m) ==
  IF m.todo = <<>> THEN [m EXCEPT !.at = "returned"]
  ELSE LET chunk == Head(m.todo)
       IN IF chunk.kind \in {"str", "tuple"}
          THEN [m EXCEPT !.todo = Tail(@), !.phrase = chunk.text, !.at = "loop"]
          ELSE [m EXCEPT !.at = "raised", !.error = "chunk type"]

\* The head of `for chunk in chunks`: the next chunk is taken and its type
\* inspected; a chunk of another type raises; with no chunk left append
\* returns.
FetchChunk(m) ==
  IF m.todo = <<>> THEN [m EXCEPT !.at = "returned"]
  ELSE LET chunk == Head(m.todo)
       IN IF chunk.kind \in {"str", "tuple"}
          THEN [m EXCEPT !.todo = Tail(@), !.phrase = chunk.text,
                         !.style = chunk.style, !.at = "loop"]
          ELSE [m EXCEPT !.at = "raised", !.error = "chunk type"]

\* (mutant) without the hard split: nothing of the word is emitted and the
\* whole phrase is carried over
HardSplitCarriesAll(phrase, remaining_space) ==
  [fragment |-> <<>>, rest |-> phrase]

\* (mutant) the hard split resumes one character too far
HardSplitSkipsOne(phrase, remaining_space) ==
  [fragment |-> Take(phrase, remaining_space),
   rest |-> Drop(phrase, remaining_space + 1)]

\* "just split the word": phrase[:remaining_space] is emitted and
\* phrase[remaining_space:] carried over
HardSplit(phrase, remaining_space) ==
  [fragment |-> Take(phrase, remaining_space),
   rest |-> Drop(phrase, remaining_space)]

\* One pass of the `while True` loop of append.
LoopPass(m) ==
  LET phrase == IF m.line_position = 2 THEN LStrip(m.phrase) ELSE m.phrase
      remaining_space == RemainingSpace(msgbox_w, m.line_position)
  IN IF Len(phrase) <= remaining_space
     THEN \* happy path: the phrase goes on the current line
          [m EXCEPT !.history = FrontAppend(@, Chunk(phrase, m.style)),
                    !.produced = FrontAppend(@, Chunk(phrase, m.style)),
                    !.phrase = phrase,
                    !.line_position = @ + Len(phrase),
                    !.at = "fetch"]
     ELSE LET last_space == RFind(Take(phrase, remaining_space), " ")
              fragment == IF last_space > 0 THEN <<Take(phrase, last_space)>>
                          ELSE IF m.line_position = 2
                               THEN <<HardSplit(phrase, remaining_space).fragment>>
                               ELSE <<>>
              rest == IF last_space > 0 THEN Drop(phrase, last_space)
                      ELSE IF m.line_position = 2
                           THEN HardSplit(phrase, remaining_space).rest
                           ELSE phrase
              emit(d) == IF fragment = <<>> THEN d
                         ELSE FrontAppend(d, Chunk(fragment[1], m.style))
              indent == <<Chunk(<<" ", " ">>, A_NORMAL)>>
          IN [m EXCEPT !.history = DequeAppendLeft(emit(@), indent, MsgCapacity),
                       !.produced = Recorded(emit(@), indent, ProducedKept),
                       !.phrase = rest,
                       !.line_position = 2]

\* One step of an append call in flight.
AppendStep(m) ==
  IF m.at = "fetch" THEN FetchChunk(m) ELSE LoopPass(m)

\* A whole append call, run to its return or its raise.
RECURSIVE AppendRun(_)
AppendRun(m) ==
  IF m.at \in {"returned", "raised"} THEN m ELSE AppendRun(AppendStep(m))

\* self.msgbox.append(*chunks, sigil=sigil) as one call
Appended(hist, prod, chunks, sigil) ==
  AppendRun(AppendEnter(hist, prod, chunks, sigil))

-----------------------------------------------------------------------------
(* Msgbox.draw, page_up, page_down *)

\* The panel before anything is drawn.  `rows` are the rows drawn, in the
\* order drawn (bottom first): the row number, the index of the Line in the
\* history and the cells written (text and style); `paging` is the paging
\* indicator; `error` is set when draw raised before it finished.
BlankScreen == [rows |-> <<>>, paging |-> FALSE, error |-> FALSE]

\* phrase[0] == the command glyph; phrase[0] of an empty phrase raises
StartsWithCommandGlyph(phrase) == phrase[1] = SigilCommand

\* The chunks of a Line before the first one draw cannot index (an empty
\* phrase, inspected only when not paging): all of them when there is none.
Drawable(line, index) ==
  LET bad == {j \in 1..Len(line) : index = 0 /\ line[j].text = <<>>}
  IN IF bad = {} THEN Len(line)
     ELSE (CHOOSE j \in bad : \A j2 \in bad : j <= j2) - 1

\* The body of `for i in range(0, lines_to_print)` from pass i on, with the
\* value `stale` has when the pass starts.
RECURSIVE DrawRows(_, _, _, _, _, _)
DrawRows(hist, index, compensate_paging, lines_to_print, i, stale) ==
  IF i >= lines_to_print THEN [rows |-> <<>>, error |-> FALSE]
  ELSE LET line_style == IF stale THEN A_DIM ELSE A_NORMAL
           line == hist[i + index + 1]
           n == Drawable(line, index)
           cells == [j \in 1..n |->
                       [text |-> line[j].text,
                        style |-> line[j].style \cup line_style]]
           row == [row |-> msgbox_h - 1 - compensate_paging - i,
                   line |-> i + index, cells |-> cells]
           now_stale == stale \/ (index = 0 /\ \E j \in 1..n :
                                     StartsWithCommandGlyph(line[j].text))
       IN IF n < Len(line)
          THEN [rows |-> <<row>>, error |-> TRUE]
          ELSE LET more == DrawRows(hist, index, compensate_paging,
                                    lines_to_print, i + 1, now_stale)
               IN [rows |-> <<row>> \o more.rows, error |-> more.error]

\* Msgbox.draw: what it puts on the panel for the given history and index
Draw(hist, index) ==
  LET compensate_paging == IF index # 0 THEN 1 ELSE 0
      lines_to_print == Min(msgbox_h - compensate_paging, Len(hist) - index)
      drawn == DrawRows(hist, index, compensate_paging, lines_to_print, 0, FALSE)
  IN [rows |-> drawn.rows, paging |-> index # 0, error |-> drawn.error]

\* (mutant) the condition of page_up without the current index
CanPageUpIgnoresIndex(size, index) == size > PageSize

\* the condition of page_up
CanPageUp(size, index) == size - index > PageSize

\* the condition of page_down
CanPageDown(index) == index >= PageSize

\* (mutant) page_up steps back by the height of the panel
PageUpIndexByPanel(size, index) ==
  IF CanPageUp(size, index) THEN index + msgbox_h ELSE index

\* history_index after page_up
PageUpIndex(size, index) ==
  IF CanPageUp(size, index) THEN index + PageSize ELSE index

\* (mutant) page_down steps back one Line instead of one page
PageDownIndexByLine(index) ==
  IF CanPageDown(index) THEN index - 1 ELSE index

\* history_index after page_down
PageDownIndex(index) ==
  IF CanPageDown(index) THEN index - PageSize ELSE index

-----------------------------------------------------------------------------
(* The arguments the model passes to append *)

Sigils == {SigilPlain, SigilPrompt, SigilCommand, SigilError}

TextsOver(alphabet, n) == UNION {[1..len -> alphabet] : len \in 0..n}

\* The argument values whose text is over the alphabet and at most n long
ArgsOver(alphabet, n) ==
  {StrArg(t) : t \in TextsOver(alphabet, n)}
    \cup {TupleArg(t, A_BOLD) : t \in TextsOver(alphabet, n)}
    \cup {OtherArg}

\* The argument sequences of at most n chunks and at most `budget`
\* characters in all
RECURSIVE ArgSeqs(_, _, _)
ArgSeqs(alphabet, n, budget) ==
  IF n = 0 THEN {<<>>}
  ELSE {<<>>} \cup
       UNION {{<<c>> \o rest :
                 rest \in ArgSeqs(alphabet, n - 1, budget - Len(c.text))} :
              c \in ArgsOver(alphabet, budget)}

WrapAlphabet == {"a", " "}
WrapInputs == ArgSeqs(WrapAlphabet, MaxChunks, MaxText)
WrapSigils == {SigilPlain, SigilCommand}

-----------------------------------------------------------------------------
(* The state after construction *)

NothingRead == [key |-> 0, calls |-> <<>>]

Limits(nsessions, nops, nchars, prompted) ==
  [sessions |-> nsessions, ops |-> nops, chars |-> nchars,
   prompted |-> prompted]

\* Msgbox.__init__ and Cmdbox.__init__, for a message box of the given size
Constructed(w, h, debug, lim) ==
  /\ limits = lim
  /\ msgbox_w = w
  /\ msgbox_h = h
  /\ msgbox_history = <<>>
  /\ msgbox_history_index = 0
  /\ call = IdleCall
  /\ produced = <<>>
  /\ history_before = <<>>
  /\ screen = BlankScreen
  /\ debug_mode = debug
  /\ chars = <<>>
  /\ cmdbox_history = <<>>
  /\ custom_commands = <<>>
  /\ get_history_index = -1
  /\ pc = "idle"
  /\ command = <<>>
  /\ typed = <<>>
  /\ invoked = NothingRead
  /\ cmdbox_screen = [text |-> <<>>, flushed |-> TRUE]
  /\ latest = <<>>
  /\ submitted = <<>>
  /\ sessions = 0
  /\ ops = 0

-----------------------------------------------------------------------------
(* append, one step of the call at a time: the layout of one message on    *)
(* a message box of any width                                              *)

Frame == [history |-> msgbox_history, produced |-> produced, at |-> call.at,
          todo |-> call.todo, phrase |-> call.phrase, style |-> call.style,
          line_position |-> call.line_position, error |-> call.error]

SetFrame(m, chunks, sigil) ==
  /\ msgbox_history' = m.history
  /\ produced' = m.produced
  /\ call' = [at |-> m.at, todo |-> m.todo, phrase |-> m.phrase,
              style |-> m.style, line_position |-> m.line_position,
              error |-> m.error, chunks |-> chunks, sigil |-> sigil]

\* append is entered
WrapCall ==
  /\ pc = "idle"
  /\ call.at = "idle"
  /\ \E chunks \in WrapInputs, sigil \in WrapSigils :
       SetFrame(AppendEnter(msgbox_history, produced, chunks, sigil),
                chunks, sigil)
  /\ history_before' = msgbox_history
  /\ UNCHANGED <<limits, cmdbox_screen, msgbox_w, msgbox_h, msgbox_history_index, screen, debug_mode,
                 pc, ops>>
  /\ UNCHANGED cmdboxVars

\* the for statement takes the next chunk, raises, or the call returns
WrapFetch ==
  /\ call.at = "fetch"
  /\ SetFrame(FetchChunk(Frame), call.chunks, call.sigil)
  /\ UNCHANGED <<limits, cmdbox_screen, msgbox_w, msgbox_h, msgbox_history_index, history_before,
                 screen, debug_mode, pc, ops>>
  /\ UNCHANGED cmdboxVars

\* one pass of the while loop
WrapPass ==
  /\ call.at = "loop"
  /\ SetFrame(LoopPass(Frame), call.chunks, call.sigil)
  /\ UNCHANGED <<limits, cmdbox_screen, msgbox_w, msgbox_h, msgbox_history_index, history_before,
                 screen, debug_mode, pc, ops>>
  /\ UNCHANGED cmdboxVars

\* a message box one row high, of any width
InitWrap ==
  \E w \in 1..MaxWidth : Constructed(w, 1, FALSE, Limits(0, 0, 0, FALSE))

NextWrap == WrapCall \/ WrapFetch \/ WrapPass

SpecWrap == InitWrap /\ [][NextWrap]_vars


\* One chunk without a space: a word, possibly with other whitespace in it
WordAlphabet == {"a", "tab"}
WordInputs == TextsOver(WordAlphabet, MaxWord)

\* append(word) or append((word, style)) is entered
WordCall ==
  /\ pc = "idle"
  /\ call.at = "idle"
  /\ \E word \in WordInputs :
       \E chunks \in {<<StrArg(word)>>, <<TupleArg(word, A_BOLD)>>} :
         SetFrame(AppendEnter(msgbox_history, produced, chunks, SigilPlain),
                  chunks, SigilPlain)
  /\ history_before' = msgbox_history
  /\ UNCHANGED <<limits, cmdbox_screen, msgbox_w, msgbox_h, msgbox_history_index, screen, debug_mode,
                 pc, ops>>
  /\ UNCHANGED cmdboxVars

\* a message box one row high and more than 2 wide
InitWord ==
  \E w \in 3..MaxWidth : Constructed(w, 1, FALSE, Limits(0, 0, 0, FALSE))

NextWord == WordCall \/ WrapFetch \/ WrapPass

SpecWord == InitWord /\ [][NextWord]_vars

\* Chunk sequences of plain strings
PlainInputs ==
  {chunks \in WrapInputs : \A i \in 1..Len(chunks) : chunks[i].kind = "str"}

\* append(*chunks) is entered with plain strings
PlainCall ==
  /\ pc = "idle"
  /\ call.at = "idle"
  /\ \E chunks \in PlainInputs :
       SetFrame(AppendEnter(msgbox_history, produced, chunks, SigilPlain),
                chunks, SigilPlain)
  /\ history_before' = msgbox_history
  /\ UNCHANGED <<limits, cmdbox_screen, msgbox_w, msgbox_h, msgbox_history_index, screen, debug_mode,
                 pc, ops>>
  /\ UNCHANGED cmdboxVars

NextPlain == PlainCall \/ WrapFetch \/ WrapPass

\* A call that was entered runs on: nothing else is scheduled while append
\* executes.
SpecPlainFair ==
  InitWord /\ [][NextPlain]_vars /\ WF_vars(WrapFetch \/ WrapPass)

-----------------------------------------------------------------------------
(* Properties of the layout (SpecWrap) *)

RECURSIVE LineLen(_)
\* the character count of a Line: prefix and chunk texts together
LineLen(line) ==
  IF line = <<>> THEN 0 ELSE Len(Head(line).text) + LineLen(Tail(line))

\* C1: on a message box of width w > 2, every Line append has put into the
\* scrollback (and every Line it has produced) holds at most w characters,
\* sigil or indent prefix included.
C1_WrapWidth ==
  msgbox_w > 2 =>
    /\ \A i \in 1..Len(msgbox_history) : LineLen(msgbox_history[i]) <= msgbox_w
    /\ \A i \in 1..Len(produced) : LineLen(produced[i]) <= msgbox_w

\* C1 witness: a finished append on width > 2 that wrapped its chunks over
\* several Lines, one of them filled to the last column.
C1_Witness ==
  /\ msgbox_w > 2
  /\ call.at = "returned"
  /\ Len(msgbox_history) >= 3
  /\ \E i \in 1..Len(msgbox_history) : LineLen(msgbox_history[i]) = msgbox_w
  /\ \E i \in 1..Len(msgbox_history) : Len(msgbox_history[i]) >= 3

\* C2: an append that raises on a chunk of a wrong type leaves the
\* scrollback exactly as it was when the call was entered.
C2_AtomicFailure ==
  call.at = "raised" => msgbox_history = history_before

\* C3: an append on a message box of width 2 or less ends by signalling an
\* invalid-width error to its caller.
C3_InvalidWidthSignalled ==
  (msgbox_w <= 2 /\ call.at \in {"returned", "raised"})
    => call.error = "invalid width"

-----------------------------------------------------------------------------
(* The message box used by its caller: append, draw, page_up, page_down *)

Repeat(c, n) == [i \in 1..n |-> c]

\* What the caller appends: a short message, an empty one, a message whose
\* text starts with the command glyph, a command line, and one word long
\* enough to fill the scrollback in a few calls.
MsgInputs ==
  { [chunks |-> <<StrArg(<<"a">>)>>, sigil |-> SigilPlain],
    [chunks |-> <<StrArg(<<>>)>>, sigil |-> SigilPlain],
    [chunks |-> <<StrArg(<<SigilCommand, "a">>)>>, sigil |-> SigilPlain],
    [chunks |-> <<TupleArg(<<"a">>, A_BOLD)>>, sigil |-> SigilCommand],
    [chunks |-> <<StrArg(Repeat("a", LongLen))>>, sigil |-> SigilPlain] }

MsgWidths == {3, 4}

\* A step that ends in an exception nobody catches ends the program.
After(raised) == IF raised THEN "crashed" ELSE pc

\* msgbox.append(*chunks, sigil=sigil)
MsgAppend ==
  /\ pc = "idle"
  /\ ops < limits.ops
  /\ \E in \in MsgInputs :
       LET m == Appended(msgbox_history, produced, in.chunks, in.sigil)
       IN /\ msgbox_history' = m.history
          /\ produced' = m.produced
          /\ pc' = After(m.at = "raised")
  /\ history_before' = msgbox_history
  /\ ops' = ops + 1
  /\ UNCHANGED <<limits, cmdbox_screen, msgbox_w, msgbox_h, msgbox_history_index, call, screen,
                 debug_mode>>
  /\ UNCHANGED cmdboxVars

\* msgbox.draw()
MsgDraw ==
  /\ pc = "idle"
  /\ ops < limits.ops
  /\ screen' = Draw(msgbox_history, msgbox_history_index)
  /\ pc' = After(screen'.error)
  /\ ops' = ops + 1
  /\ UNCHANGED <<limits, cmdbox_screen, msgbox_w, msgbox_h, msgbox_history, msgbox_history_index,
                 call, produced, history_before, debug_mode>>
  /\ UNCHANGED cmdboxVars

\* msgbox.page_up()
MsgPageUp ==
  /\ pc = "idle"
  /\ ops < limits.ops
  /\ msgbox_history_index' =
       PageUpIndex(Len(msgbox_history), msgbox_history_index)
  /\ IF CanPageUp(Len(msgbox_history), msgbox_history_index)
     THEN screen' = Draw(msgbox_history, msgbox_history_index')
     ELSE screen' = screen
  /\ pc' = After(screen'.error)
  /\ ops' = ops + 1
  /\ UNCHANGED <<limits, cmdbox_screen, msgbox_w, msgbox_h, msgbox_history, call, produced,
                 history_before, debug_mode>>
  /\ UNCHANGED cmdboxVars

\* msgbox.page_down()
MsgPageDown ==
  /\ pc = "idle"
  /\ ops < limits.ops
  /\ msgbox_history_index' = PageDownIndex(msgbox_history_index)
  /\ IF CanPageDown(msgbox_history_index)
     THEN screen' = Draw(msgbox_history, msgbox_history_index')
     ELSE screen' = screen
  /\ pc' = After(screen'.error)
  /\ ops' = ops + 1
  /\ UNCHANGED <<limits, cmdbox_screen, msgbox_w, msgbox_h, msgbox_history, call, produced,
                 history_before, debug_mode>>
  /\ UNCHANGED cmdboxVars

InitMsg ==
  \E w \in MsgWidths, h \in {1, MaxHeight} : Constructed(w, h, FALSE, Limits(0, MaxOps, 0, FALSE))

NextMsg == MsgAppend \/ MsgDraw \/ MsgPageUp \/ MsgPageDown

SpecMsg == InitMsg /\ [][NextMsg]_vars

\* A message box tall enough for pages of more than one Line, and one too
\* low for a page (page_size 0)
InitPage ==
  \E w \in MsgWidths, h \in {1, 2 * MaxHeight} :
    Constructed(w, h, FALSE, Limits(0, MaxOps, 0, FALSE))

SpecPage == InitPage /\ [][NextMsg]_vars

\* Message boxes with pages of one Line and of more than one Line
PanelWidths == {3}

InitPanel ==
  \E w \in PanelWidths, h \in {MaxHeight, 2 * MaxHeight} :
    Constructed(w, h, FALSE, Limits(0, MaxOps, 0, FALSE))

SpecPanel == InitPanel /\ [][NextMsg]_vars

-----------------------------------------------------------------------------
(* Properties of the scrollback and of draw (SpecMsg) *)

\* C4: the scrollback never holds more than capacity = height x 10 Lines,
\* and it is always the most recently produced Lines, most recent first: all
\* of them until capacity is exceeded, exactly the capacity most recent ones
\* from then on.
C4_RingEviction ==
  /\ Len(msgbox_history) <= MsgCapacity
  /\ msgbox_history = SubSeq(produced, 1, Min(Len(produced), MsgCapacity))
  /\ Len(produced) > MsgCapacity => Len(msgbox_history) = MsgCapacity

\* C4 witness: more Lines than capacity have been produced, on a message
\* box that pages, while it is paged back.
C4_Witness ==
  /\ Len(produced) > MsgCapacity
  /\ PageSize > 0
  /\ msgbox_history_index > 0
  /\ pc = "idle"

C5_Range ==
  0 <= msgbox_history_index /\ msgbox_history_index <= Len(msgbox_history)

C5_NoOp ==
  /\ (MsgPageUp /\ msgbox_history_index + PageSize > Len(msgbox_history))
       => (UNCHANGED msgboxVars /\ pc' = pc)
  /\ (MsgPageDown /\ msgbox_history_index - PageSize < 0)
       => (UNCHANGED msgboxVars /\ pc' = pc)

\* C5: the paging offset always satisfies 0 <= offset <= scrollback size,
\* and a page_up or page_down that would take it out of this range changes
\* nothing of the message box and raises nothing.
C5_PagingClamp == []C5_Range /\ [][C5_NoOp]_vars

\* C5 witness: the message box is paged back as far as page_up goes (one
\* more page would pass the end of the scrollback) after several appends.
C5_Witness ==
  /\ PageSize > 0
  /\ msgbox_history_index > 0
  /\ msgbox_history_index + PageSize >= Len(msgbox_history)
  /\ Len(msgbox_history) >= 2

\* a Line whose leading chunk is the command sigil
IsCommandLine(line) == line[1].text = <<SigilCommand, " ">>

\* a row of the panel drawn dimmed
Dimmed(row) == \A j \in 1..Len(row.cells) : "dim" \in row.cells[j].style

\* C9: when the panel shows a finished render of the current scrollback at
\* paging offset 0, the rows drawn dimmed are exactly those of the Lines
\* older than the most recent visible command-sigil Line; at another offset
\* no row is dimmed.
C9_StalenessBoundary ==
  (screen = Draw(msgbox_history, msgbox_history_index) /\ ~screen.error) =>
    \A r \in 1..Len(screen.rows) :
      Dimmed(screen.rows[r]) <=>
        /\ msgbox_history_index = 0
        /\ \E b \in 1..(r - 1) :
             IsCommandLine(msgbox_history[screen.rows[b].line + 1])

-----------------------------------------------------------------------------
(* Cmdbox: key codes *)

Enter == 13
CtrlD == 4
Delete == 127
PrintableFirst == 32
PrintableLast == 126
KEY_DOWN == 258
KEY_UP == 259
KEY_BACKSPACE == 263
KEY_NPAGE == 338
KEY_PPAGE == 339

\* maxlen of Cmdbox.history
CmdCapacity == 10

\* chr(key), for the keys the model types and the digits
Chr(key) ==
  CASE key = 32 -> " "
    [] key \in 48..57 -> <<"0", "1", "2", "3", "4", "5", "6", "7", "8", "9">>[key - 47]
    [] key = 103 -> "g"
    [] key = 111 -> "o"
    [] OTHER -> "?"

\* the decimal digits of a natural number, as f"{key}" writes them
RECURSIVE Decimal(_)
Decimal(n) ==
  IF n < 10 THEN <<Chr(48 + n)>> ELSE Append(Decimal(n \div 10), Chr(48 + (n % 10)))

\* The case of the match statement that takes the key: the first one, in
\* the order written, whose pattern and guard accept it.
KeyCase(key, commands) ==
  IF PrintableFirst <= key /\ key <= PrintableLast THEN "printable"
  ELSE IF key \in {Delete, KEY_BACKSPACE} THEN "backspace"
  ELSE IF key = KEY_UP THEN "up"
  ELSE IF key = KEY_DOWN THEN "down"
  ELSE IF key = KEY_PPAGE THEN "page_up"
  ELSE IF key = KEY_NPAGE THEN "page_down"
  ELSE IF key = Enter THEN "enter"
  ELSE IF key = CtrlD THEN "ctrl_d"
  ELSE IF key \in DOMAIN commands THEN "custom"
  ELSE "other"

\* self.custom_commands[val] = func
Registered(commands, val, func) ==
  [key \in DOMAIN commands \cup {val} |->
     IF key = val THEN func ELSE commands[key]]

\* (mutant) history_index keeps the value the previous session left
FreshHistoryIndexStale(previous) == previous

\* history_index = -1 at the start of get, whatever it was before
FreshHistoryIndex(previous) == -1

\* Cmdbox.w: Window gives the message box its width less 2 and the
\* command box its width less 4
CmdboxWidth(w) == w - 2

\* Cmdbox.draw: a buffer shorter than the panel replaces what the panel
\* shows; a longer one is written, after an ellipsis, over what is there.
\* No refresh follows.
CmdboxDraw(shown, buffer, cw) ==
  IF Len(buffer) < cw
  THEN [text |-> buffer, flushed |-> FALSE]
  ELSE LET written == <<"...">> \o Drop(buffer, -(cw - 2))
       IN [text |-> written \o Drop(shown.text, Len(written)),
           flushed |-> FALSE]

\* the condition of the history-up case
CanHistoryUp(index, size) == index < size - 1

\* the condition of the history-down case
CanHistoryDown(index) == index > 0

\* (mutant) every submission is remembered
RememberedAlways(hist, buffer) == DequeAppendLeft(hist, buffer, CmdCapacity)

\* "Don't remember identical consecutive actions": Cmdbox.history after a
\* submission of the buffer
Remembered(hist, buffer) ==
  IF Len(hist) = 0 THEN DequeAppendLeft(hist, buffer, CmdCapacity)
  ELSE IF buffer # hist[1] THEN DequeAppendLeft(hist, buffer, CmdCapacity)
  ELSE hist

\* (mutant) the command keeps its leading whitespace
CommandOfUnstripped(buffer) == buffer

\* command = "".join(self.chars).lstrip()
CommandOf(buffer) == LStrip(buffer)

-----------------------------------------------------------------------------
(* Cmdbox.get and Cmdbox.register, with the message box they write to *)

\* The keys the terminal delivers to the model
PrintableKeys == {32, 103, 111}
AllKeys == PrintableKeys \cup
           {Delete, KEY_BACKSPACE, KEY_UP, KEY_DOWN, KEY_PPAGE, KEY_NPAGE,
            Enter, CtrlD, 18}

\* The keys and callbacks the application registers: Ctrl+R and Ctrl+D;
\* a callback that says something (as in example_advanced) and one that
\* does nothing
RegisterKeys == {18, CtrlD}
Callbacks == {"say", "nop"}

\* The prompts of get: None, a one-character prompt, the empty string
Prompts == { [given |-> FALSE, text |-> <<>>],
             [given |-> TRUE, text |-> <<"?">>],
             [given |-> TRUE, text |-> <<>>] }

SpecWidths == {4}

\* The record of a session's keys is given up once they are neither all
\* printable nor all history-up.
Forgotten == <<-1>>

IsPrintable(key) == PrintableFirst <= key /\ key <= PrintableLast

AllPrintable(log) == \A i \in 1..Len(log) : IsPrintable(log[i])
AllHistoryUp(log) == \A i \in 1..Len(log) : log[i] = KEY_UP

Logged(log, key) ==
  LET new == Append(log, key)
  IN IF /\ log # Forgotten
        /\ Len(new) <= MaxTyped
        /\ AllPrintable(new) \/ AllHistoryUp(new)
     THEN new ELSE Forgotten

\* the key is read: k = self.box.getch()
Read(key) ==
  /\ pc = "reading"
  /\ typed' = Logged(typed, key)

\* what the key loop called for the key it read
Called(key, funcs) ==
  [key |-> IF key \in RegisterKeys THEN key ELSE 0, calls |-> funcs]

\* The message box after append(*chunks, sigil=sigil) and draw(), as
\* Window.say and the prompt of get do them
SayResult(chunks, sigil) ==
  LET m == Appended(msgbox_history, produced, chunks, sigil)
  IN [history |-> m.history, produced |-> m.produced,
      screen |-> Draw(m.history, msgbox_history_index)]

\* cmdbox.register(val, func)
Register ==
  /\ pc = "idle"
  /\ sessions < limits.sessions
  /\ ops < limits.ops
  /\ \E val \in RegisterKeys, func \in Callbacks :
       /\ custom_commands' = Registered(custom_commands, val, func)
       /\ latest' = [key \in DOMAIN latest \cup {val} |->
                       IF key = val
                       THEN [func |-> func,
                             earlier |-> IF val \in DOMAIN latest
                                         THEN latest[val].earlier
                                                \cup {latest[val].func}
                                         ELSE {}]
                       ELSE latest[key]]
  /\ ops' = ops + 1
  /\ UNCHANGED <<limits, cmdbox_screen, msgbox_w, msgbox_h, debug_mode, pc, chars, cmdbox_history,
                 get_history_index, command, typed, invoked, submitted,
                 sessions>>
  /\ UNCHANGED msgboxVars

\* get(prompt) up to the head of its key loop
GetStart ==
  /\ pc = "idle"
  /\ sessions < limits.sessions
  /\ \E prompt \in Prompts :
       /\ prompt.given => limits.prompted
       /\ IF prompt.given
          THEN LET said == SayResult(<<StrArg(prompt.text)>>, SigilPrompt)
               IN /\ msgbox_history' = said.history
                  /\ produced' = said.produced
                  /\ screen' = said.screen
                  /\ history_before' = msgbox_history
          ELSE UNCHANGED <<msgbox_history, produced, screen, history_before>>
  /\ IF screen'.error
     THEN /\ pc' = "crashed"
          /\ UNCHANGED <<chars, get_history_index>>
     ELSE /\ pc' = "reading"
          /\ chars' = <<>>
          /\ get_history_index' = FreshHistoryIndex(get_history_index)
  /\ typed' = <<>>
  /\ invoked' = NothingRead
  /\ sessions' = sessions + 1
  /\ UNCHANGED <<limits, cmdbox_screen, msgbox_w, msgbox_h, msgbox_history_index, call, debug_mode,
                 cmdbox_history, custom_commands, command, latest,
                 submitted, ops>>

\* case key if 32 <= key <= 126
KeyPrintable ==
  /\ Len(chars) < limits.chars
  /\ \E key \in AllKeys :
       /\ KeyCase(key, custom_commands) = "printable"
       /\ Read(key)
       /\ invoked' = Called(key, <<>>)
       /\ chars' = Append(chars, Chr(key))
  /\ cmdbox_screen' = CmdboxDraw(cmdbox_screen, chars', CmdboxWidth(msgbox_w))
  /\ UNCHANGED <<limits, msgbox_w, msgbox_h, debug_mode, pc, cmdbox_history,
                 custom_commands, get_history_index, command, latest,
                 submitted, sessions, ops>>
  /\ UNCHANGED msgboxVars

\* case 127 | curses.KEY_BACKSPACE
KeyBackspace ==
  /\ \E key \in AllKeys :
       /\ KeyCase(key, custom_commands) = "backspace"
       /\ Read(key)
       /\ invoked' = Called(key, <<>>)
  /\ chars' = IF Len(chars) # 0 THEN SubSeq(chars, 1, Len(chars) - 1) ELSE chars
  /\ cmdbox_screen' = IF Len(chars) # 0
                      THEN CmdboxDraw(cmdbox_screen, chars', CmdboxWidth(msgbox_w))
                      ELSE cmdbox_screen
  /\ UNCHANGED <<limits, msgbox_w, msgbox_h, debug_mode, pc, cmdbox_history,
                 custom_commands, get_history_index, command, latest,
                 submitted, sessions, ops>>
  /\ UNCHANGED msgboxVars

\* (mutant) history-up at the oldest entry wraps around to a fresh line
KeyUpWraps ==
  /\ \E key \in AllKeys :
       /\ KeyCase(key, custom_commands) = "up"
       /\ Read(key)
       /\ invoked' = Called(key, <<>>)
  /\ IF CanHistoryUp(get_history_index, Len(cmdbox_history))
     THEN /\ get_history_index' = get_history_index + 1
          /\ chars' = cmdbox_history[get_history_index' + 1]
     ELSE /\ get_history_index' = -1
          /\ chars' = <<>>
  /\ cmdbox_screen' = IF CanHistoryUp(get_history_index, Len(cmdbox_history))
                      THEN CmdboxDraw(cmdbox_screen, chars', CmdboxWidth(msgbox_w))
                      ELSE cmdbox_screen
  /\ UNCHANGED <<limits, msgbox_w, msgbox_h, debug_mode, pc, cmdbox_history,
                 custom_commands, command, latest, submitted, sessions, ops>>
  /\ UNCHANGED msgboxVars

\* case curses.KEY_UP
KeyUp ==
  /\ \E key \in AllKeys :
       /\ KeyCase(key, custom_commands) = "up"
       /\ Read(key)
       /\ invoked' = Called(key, <<>>)
  /\ IF CanHistoryUp(get_history_index, Len(cmdbox_history))
     THEN /\ get_history_index' = get_history_index + 1
          /\ chars' = cmdbox_history[get_history_index' + 1]
     ELSE UNCHANGED <<get_history_index, chars>>
  /\ cmdbox_screen' = IF CanHistoryUp(get_history_index, Len(cmdbox_history))
                      THEN CmdboxDraw(cmdbox_screen, chars', CmdboxWidth(msgbox_w))
                      ELSE cmdbox_screen
  /\ UNCHANGED <<limits, msgbox_w, msgbox_h, debug_mode, pc, cmdbox_history,
                 custom_commands, command, latest, submitted, sessions, ops>>
  /\ UNCHANGED msgboxVars

\* case curses.KEY_DOWN
KeyDown ==
  /\ \E key \in AllKeys :
       /\ KeyCase(key, custom_commands) = "down"
       /\ Read(key)
       /\ invoked' = Called(key, <<>>)
  /\ IF CanHistoryDown(get_history_index)
     THEN /\ get_history_index' = get_history_index - 1
          /\ chars' = cmdbox_history[get_history_index' + 1]
     ELSE UNCHANGED <<get_history_index, chars>>
  /\ cmdbox_screen' = IF CanHistoryDown(get_history_index)
                      THEN CmdboxDraw(cmdbox_screen, chars', CmdboxWidth(msgbox_w))
                      ELSE cmdbox_screen
  /\ UNCHANGED <<limits, msgbox_w, msgbox_h, debug_mode, pc, cmdbox_history,
                 custom_commands, command, latest, submitted, sessions, ops>>
  /\ UNCHANGED msgboxVars
\* (mutant) the page-up case also empties the edit buffer
KeyPageUpLosesBuffer ==
  /\ ops < limits.ops
  /\ \E key \in AllKeys :
       /\ KeyCase(key, custom_commands) = "page_up"
       /\ Read(key)
       /\ invoked' = Called(key, <<>>)
  /\ msgbox_history_index' =
       PageUpIndex(Len(msgbox_history), msgbox_history_index)
  /\ IF CanPageUp(Len(msgbox_history), msgbox_history_index)
     THEN screen' = Draw(msgbox_history, msgbox_history_index')
     ELSE screen' = screen
  /\ pc' = After(screen'.error)
  /\ ops' = ops + 1
  /\ chars' = <<>>
  /\ UNCHANGED <<limits, cmdbox_screen, msgbox_w, msgbox_h, msgbox_history, call, produced,
                 history_before, debug_mode, cmdbox_history,
                 custom_commands, get_history_index, command, latest,
                 submitted, sessions>>

\* case curses.KEY_PPAGE
KeyPageUp ==
  /\ ops < limits.ops
  /\ \E key \in AllKeys :
       /\ KeyCase(key, custom_commands) = "page_up"
       /\ Read(key)
       /\ invoked' = Called(key, <<>>)
  /\ msgbox_history_index' =
       PageUpIndex(Len(msgbox_history), msgbox_history_index)
  /\ IF CanPageUp(Len(msgbox_history), msgbox_history_index)
     THEN screen' = Draw(msgbox_history, msgbox_history_index')
     ELSE screen' = screen
  /\ pc' = After(screen'.error)
  /\ ops' = ops + 1
  /\ UNCHANGED <<limits, cmdbox_screen, msgbox_w, msgbox_h, msgbox_history, call, produced,
                 history_before, debug_mode, chars, cmdbox_history,
                 custom_commands, get_history_index, command, latest,
                 submitted, sessions>>

\* case curses.KEY_NPAGE
KeyPageDown ==
  /\ ops < limits.ops
  /\ \E key \in AllKeys :
       /\ KeyCase(key, custom_commands) = "page_down"
       /\ Read(key)
       /\ invoked' = Called(key, <<>>)
  /\ msgbox_history_index' = PageDownIndex(msgbox_history_index)
  /\ IF CanPageDown(msgbox_history_index)
     THEN screen' = Draw(msgbox_history, msgbox_history_index')
     ELSE screen' = screen
  /\ pc' = After(screen'.error)
  /\ ops' = ops + 1
  /\ UNCHANGED <<limits, cmdbox_screen, msgbox_w, msgbox_h, msgbox_history, call, produced,
                 history_before, debug_mode, chars, cmdbox_history,
                 custom_commands, get_history_index, command, latest,
                 submitted, sessions>>

\* case 13, the statements after the loop, and the return of get
KeyEnter ==
  /\ \E key \in AllKeys :
       /\ KeyCase(key, custom_commands) = "enter"
       /\ pc = "reading"
       /\ invoked' = Called(key, <<>>)
  /\ command' = CommandOf(chars)
  /\ IF command' # <<>>
     THEN LET m == Appended(msgbox_history, produced,
                            <<TupleArg(command', A_BOLD)>>, SigilCommand)
          IN /\ msgbox_history' = m.history
             /\ produced' = m.produced
             /\ history_before' = msgbox_history
             /\ cmdbox_history' = Remembered(cmdbox_history, chars)
     ELSE UNCHANGED <<msgbox_history, produced, history_before, cmdbox_history>>
  /\ chars' = <<>>
  /\ pc' = "idle"
  /\ submitted' = Append(submitted, chars)
  /\ cmdbox_screen' = CmdboxDraw(IF command' # <<>>
                                  THEN [text |-> <<>>, flushed |-> FALSE]
                                  ELSE cmdbox_screen,
                                  chars', CmdboxWidth(msgbox_w))
  /\ UNCHANGED <<limits, msgbox_w, msgbox_h, msgbox_history_index, call, screen,
                 debug_mode, custom_commands, get_history_index, typed,
                 latest, sessions, ops>>

\* case 4: Ctrl+D, the interactive console when in debug mode; it is not
\* part of the model and leaves the state as it is
KeyCtrlD ==
  /\ \E key \in AllKeys :
       /\ KeyCase(key, custom_commands) = "ctrl_d"
       /\ Read(key)
       /\ invoked' = Called(key, <<>>)
  /\ UNCHANGED <<limits, cmdbox_screen, msgbox_w, msgbox_h, debug_mode, pc, chars, cmdbox_history,
                 custom_commands, get_history_index, command, latest,
                 submitted, sessions, ops>>
  /\ UNCHANGED msgboxVars

\* case key if key in self.custom_commands: the callback is called with
\* the window.  The callback "say" is lambda w: w.say("a").
KeyCustom ==
  /\ ops < limits.ops
  /\ \E key \in AllKeys :
       /\ KeyCase(key, custom_commands) = "custom"
       /\ Read(key)
       /\ invoked' = Called(key, <<[func |-> custom_commands[key],
                                     arg |-> "window"]>>)
       /\ IF custom_commands[key] = "say"
          THEN LET said == SayResult(<<StrArg(<<"a">>)>>, SigilPlain)
               IN /\ msgbox_history' = said.history
                  /\ produced' = said.produced
                  /\ screen' = said.screen
                  /\ history_before' = msgbox_history
          ELSE UNCHANGED <<msgbox_history, produced, screen, history_before>>
  /\ pc' = After(screen'.error)
  /\ ops' = ops + 1
  /\ UNCHANGED <<limits, cmdbox_screen, msgbox_w, msgbox_h, msgbox_history_index, call, debug_mode,
                 chars, cmdbox_history, custom_commands, get_history_index,
                 command, latest, submitted, sessions>>

\* curses.keyname(key), for the control keys
KeyName(key) ==
  <<"^", <<"@", "A", "B", "C", "D", "E", "F", "G", "H", "I", "J", "K", "L",
           "M", "N", "O", "P", "Q", "R", "S", "T", "U", "V", "W", "X", "Y",
           "Z">>[key + 1]>>

\* msg = f"unhandled key: {key}{name}"; `known` is curses.has_key(key)
UnhandledMessage(key, known) ==
  <<"u", "n", "h", "a", "n", "d", "l", "e", "d", " ", "k", "e", "y", ":", " ">>
    \o Decimal(key)
    \o (IF known THEN <<" ", "(">> \o KeyName(key) \o <<")">> ELSE <<>>)

\* case key: a key nothing handles; reported when in debug mode
KeyOther ==
  /\ ops < limits.ops
  /\ \E key \in AllKeys :
       /\ KeyCase(key, custom_commands) = "other"
       /\ Read(key)
       /\ invoked' = Called(key, <<>>)
       /\ IF debug_mode
          THEN \E known \in BOOLEAN :
                 LET said == SayResult(<<StrArg(UnhandledMessage(key, known))>>,
                                       SigilError)
                 IN /\ msgbox_history' = said.history
                    /\ produced' = said.produced
                    /\ screen' = said.screen
                    /\ history_before' = msgbox_history
          ELSE UNCHANGED <<msgbox_history, produced, screen, history_before>>
  /\ pc' = After(screen'.error)
  /\ ops' = ops + 1
  /\ UNCHANGED <<limits, cmdbox_screen, msgbox_w, msgbox_h, msgbox_history_index, call, debug_mode,
                 chars, cmdbox_history, custom_commands, get_history_index,
                 command, latest, submitted, sessions>>

\* one pass of the key loop of get
ReadKey ==
  \/ KeyPrintable \/ KeyBackspace \/ KeyUp \/ KeyDown \/ KeyPageUp
  \/ KeyPageDown \/ KeyEnter \/ KeyCtrlD \/ KeyCustom \/ KeyOther

Init ==
  \E w \in SpecWidths, debug \in BOOLEAN :
    Constructed(w, MaxHeight, debug, Limits(1, MaxSide, 1, TRUE))

Next == Register \/ GetStart \/ ReadKey

Spec == Init /\ [][Next]_vars

-----------------------------------------------------------------------------
(* Sessions of editing, history recall and submission *)

EditWidths == {4}

InitEdit ==
  \E w \in EditWidths :
    Constructed(w, MaxHeight, FALSE, Limits(MaxSessions, 0, MaxChars, FALSE))

NextEdit ==
  GetStart \/ KeyPrintable \/ KeyBackspace \/ KeyUp \/ KeyDown \/ KeyEnter

SpecEdit == InitEdit /\ [][NextEdit]_vars

\* Sessions of one-character commands, for recall from a longer history
InitRecall ==
  \E w \in EditWidths :
    Constructed(w, MaxHeight, FALSE, Limits(MaxRecall, 0, 1, FALSE))

SpecRecall == InitRecall /\ [][NextEdit]_vars

-----------------------------------------------------------------------------
(* Submission: the returned command and its echo *)

\* the characters of a log of printable keys
TypedText(log) == [i \in 1..Len(log) |-> Chr(log[i])]

\* the text without the spaces it starts with
WithoutLeadingSpaces(text) ==
  LET n == CHOOSE j \in 0..Len(text) :
             /\ \A i \in 1..j : text[i] = " "
             /\ j = Len(text) \/ text[j + 1] # " "
  IN SubSeq(text, n + 1, Len(text))

\* get has returned from a session in which only printable keys were typed
\* before enter
ReturnedFromTyping ==
  /\ pc = "idle"
  /\ sessions > 0
  /\ typed # Forgotten
  /\ AllPrintable(typed)
  /\ submitted # <<>>
  /\ submitted[Len(submitted)] = TypedText(typed)

\* C6: get fed printable keys and then enter returns the typed characters
\* without their leading whitespace; when that command is not empty and
\* fits on one line (at most w - 2 characters), the frontmost scrollback
\* Line is the command sigil chunk followed by the command in bold.
C6_SubmissionRoundtrip ==
  ReturnedFromTyping =>
    /\ command = WithoutLeadingSpaces(TypedText(typed))
    /\ (command # <<>> /\ Len(command) <= msgbox_w - 2) =>
         /\ msgbox_history # <<>>
         /\ msgbox_history[1] = <<Chunk(<<SigilCommand, " ">>, A_NORMAL),
                                  Chunk(command, A_BOLD)>>

\* C6 (witness): the keys g, o, enter have returned "go" and the frontmost
\* Line is the command sigil and a bold "go"
C6_Witness ==
  /\ ReturnedFromTyping
  /\ typed = <<103, 111>>
  /\ command = <<"g", "o">>
  /\ msgbox_history[1] = <<Chunk(<<SigilCommand, " ">>, A_NORMAL),
                           Chunk(<<"g", "o">>, A_BOLD)>>

-----------------------------------------------------------------------------
(* Command history: consecutive duplicates *)

\* the entries of the command history equal to the buffer
EntriesOf(hist, buffer) == {i \in 1..Len(hist) : hist[i] = buffer}

\* C7 (as stated): when a session returns the same command text as the
\* session before it, the submission adds no entry to the command history.
C7_SameCommandAddsNoEntry ==
  [][(KeyEnter /\ submitted # <<>> /\ command' = command)
       => cmdbox_history' = cmdbox_history]_vars

\* C7 (amended): when a session submits an edit buffer that is, character
\* for character, the buffer the session before it submitted, and its
\* command is not empty, the submission adds no entry: the command history
\* is unchanged, the buffer is its front entry and the entry behind the
\* front differs from it.
C7_SameBufferAddsNoEntry ==
  [][(KeyEnter /\ submitted # <<>> /\ chars = submitted[Len(submitted)]
        /\ command' # <<>>)
       => /\ cmdbox_history' = cmdbox_history
          /\ cmdbox_history'[1] = chars
          /\ 2 \notin EntriesOf(cmdbox_history', chars)]_vars

\* C7 (witness): two sessions in a row have submitted the same buffer and
\* the command history holds it once
C7_Witness ==
  /\ pc = "idle"
  /\ Len(submitted) = 2
  /\ submitted[1] = submitted[2]
  /\ command # <<>>
  /\ cmdbox_history = <<submitted[2]>>

-----------------------------------------------------------------------------
(* Registered keys *)

\* the one call the latest callback registered for the key is owed
CallOfLatest(key) == <<[func |-> latest[key].func, arg |-> "window"]>>

\* C8: for every key code, reading the key in the loop of get after
\* callbacks were registered for it calls the latest of them exactly once
\* with the window, and no earlier one.
C8_RegisteredKeyInvoked ==
  [][(pc = "reading" /\ invoked'.key \in DOMAIN latest)
       => invoked'.calls = CallOfLatest(invoked'.key)]_vars

-----------------------------------------------------------------------------
(* History recall in a fresh session *)

\* C10: a session starts with the history cursor at -1 whatever earlier
\* sessions did, so after k history-up keys in a row from its start
\* (1 <= k <= history size) the edit buffer is the k-th most recent entry
\* of the command history and the cursor is k - 1.
C10_FreshCursorRecall ==
  /\ (pc = "reading" /\ typed = <<>>) => get_history_index = -1
  /\ (/\ pc = "reading"
      /\ typed # Forgotten
      /\ typed # <<>>
      /\ AllHistoryUp(typed)
      /\ Len(typed) <= Len(cmdbox_history))
       => /\ chars = cmdbox_history[Len(typed)]
          /\ get_history_index = Len(typed) - 1

\* C10 (witness): in the third session two history-up keys have recalled
\* the second most recent of two stored submissions
C10_Witness ==
  /\ pc = "reading"
  /\ sessions = 3
  /\ typed = <<KEY_UP, KEY_UP>>
  /\ Len(cmdbox_history) = 2
  /\ chars = cmdbox_history[2]
  /\ chars = submitted[1]

-----------------------------------------------------------------------------
(* Drawing and flushing *)

\* C11: at every blocking key read, each draw a panel has issued was
\* followed by a refresh of that panel: the message panel's last draw ran
\* to its refresh and the command panel's last draw was flushed.
C11_DrawFlushedBeforeRead ==
  pc = "reading" => (~screen.error /\ cmdbox_screen.flushed)

-----------------------------------------------------------------------------
(* Paging keys inside get *)

\* C12: a page-up or page-down key read in the loop of get leaves the edit
\* buffer, the history cursor, the command history and the contents of the
\* scrollback as they were; only the paging offset (and what is drawn) may
\* change.
C12_PageKeyFrame ==
  [][(KeyPageUp \/ KeyPageDown)
       => /\ chars' = chars
          /\ get_history_index' = get_history_index
          /\ cmdbox_history' = cmdbox_history
          /\ msgbox_history' = msgbox_history]_vars

\* C12 (witness): inside get, with a character in the edit buffer, the
\* message panel has been paged up and shows the paging indicator
C12_Witness ==
  /\ pc = "reading"
  /\ chars # <<>>
  /\ msgbox_history_index > 0
  /\ screen.paging

-----------------------------------------------------------------------------
(* The staleness boundary *)

\* C13: only a Line whose leading chunk is the command sigil starts the
\* dimming: when the panel shows a finished render at paging offset 0 of a
\* scrollback that holds no command-sigil Line, no row is drawn dimmed,
\* whatever the text of the other chunks.
C13_OnlySigilIsBoundary ==
  (/\ screen = Draw(msgbox_history, msgbox_history_index)
   /\ ~screen.error
   /\ msgbox_history_index = 0
   /\ \A l \in 1..Len(msgbox_history) : ~IsCommandLine(msgbox_history[l]))
    => \A r \in 1..Len(screen.rows) : ~Dimmed(screen.rows[r])

-----------------------------------------------------------------------------
(* The history cursor *)

\* inside a session the cursor is -1 or the index of an entry
C14_Range ==
  pc = "reading" =>
    (-1 <= get_history_index /\ get_history_index < Len(cmdbox_history))

\* history-up at the oldest entry and history-down at the newest or before
\* any recall are no-ops; a key that does not end the session leaves the
\* command history alone
C14_NoOp ==
  /\ (KeyUp /\ get_history_index = Len(cmdbox_history) - 1)
       => UNCHANGED <<get_history_index, chars>>
  /\ (KeyDown /\ get_history_index <= 0)
       => UNCHANGED <<get_history_index, chars>>
  /\ (pc = "reading" /\ pc' = "reading") => cmdbox_history' = cmdbox_history

\* C14: throughout a session of get, -1 <= history_index < len(history);
\* history-up at the oldest entry and history-down with the cursor at 0 or
\* -1 change neither the cursor nor the edit buffer; no key before the
\* submission changes the command history.
C14_CursorBounds == []C14_Range /\ [][C14_NoOp]_vars

\* C14 (witness): with two entries stored, the third history-up in a row
\* found the cursor at the oldest entry and left it there
C14_Witness ==
  /\ pc = "reading"
  /\ typed = <<KEY_UP, KEY_UP, KEY_UP>>
  /\ Len(cmdbox_history) = 2
  /\ get_history_index = 1
  /\ chars = cmdbox_history[2]

-----------------------------------------------------------------------------
(* Submitting nothing *)

\* the buffer is empty or holds only whitespace
Blank(buffer) == \A i \in 1..Len(buffer) : buffer[i] = " "

\* C15: when enter is read while the edit buffer is empty or holds only
\* whitespace, get returns the empty string and the submission changes
\* neither the scrollback nor the command history.
C15_BlankSubmission ==
  [][(KeyEnter /\ Blank(chars))
       => /\ command' = <<>>
          /\ msgbox_history' = msgbox_history
          /\ cmdbox_history' = cmdbox_history]_vars

\* C15 (witness): after a stored command, a session has submitted a buffer
\* of one space and returned the empty string; one entry is stored
C15_Witness ==
  /\ pc = "idle"
  /\ Len(submitted) = 2
  /\ submitted[2] = <<" ">>
  /\ command = <<>>
  /\ Len(cmdbox_history) = 1
  /\ Len(msgbox_history) = 1

-----------------------------------------------------------------------------
(* One long word (SpecWord) *)

\* the text of a Line after its sigil or indent prefix
RECURSIVE Texts(_)
Texts(cs) == IF cs = <<>> THEN <<>> ELSE Head(cs).text \o Texts(Tail(cs))

LineText(line) == Texts(Tail(line))

\* the n-th Line the call produced, the first being the sigil Line
NthProduced(n) == produced[Len(produced) + 1 - n]

\* ceil(a / b)
CeilDiv(a, b) == (a + b - 1) \div b

\* the word the call was given
Word == call.chunks[1].text

\* the call has produced ceil(L / (w-2)) Lines, each but the last with
\* w - 2 characters of text
FullFragments ==
  /\ Len(produced) = CeilDiv(Len(Word), msgbox_w - 2)
  /\ \A n \in 1..(Len(produced) - 1) :
       Len(LineText(NthProduced(n))) = msgbox_w - 2

\* C16 (as stated): wrapping one chunk of length L that contains no space
\* at width w > 2 produces ceil(L / (w-2)) Lines whose fragments are w - 2
\* long except possibly the last.
C16_LongWordAsStated ==
  (/\ call.at = "returned"
   /\ msgbox_w > 2
   /\ \A i \in 1..Len(Word) : Word[i] # " ")
    => FullFragments

\* C16 (amended): the same for a chunk of length L >= 1 that contains no
\* whitespace at all.
C16_LongWord ==
  (/\ call.at = "returned"
   /\ msgbox_w > 2
   /\ Len(Word) >= 1
   /\ \A i \in 1..Len(Word) : Word[i] \notin Whitespace)
    => FullFragments

\* C16 (witness): a word of 7 characters at width 5 has given fragments of
\* 3, 3 and 1 characters
C16_Witness ==
  /\ call.at = "returned"
  /\ msgbox_w = 5
  /\ Word = <<"a", "a", "a", "a", "a", "a", "a">>
  /\ Len(produced) = 3
  /\ Len(LineText(NthProduced(1))) = 3
  /\ Len(LineText(NthProduced(2))) = 3
  /\ Len(LineText(NthProduced(3))) = 1

-----------------------------------------------------------------------------
(* Content preservation (SpecWrap) *)

\* the characters of a sequence of chunks, each with the style of its chunk
RECURSIVE Styled(_)
Styled(cs) ==
  IF cs = <<>> THEN <<>>
  ELSE [i \in 1..Len(Head(cs).text) |->
          [char |-> Head(cs).text[i], style |-> Head(cs).style]]
       \o Styled(Tail(cs))

\* styled characters without the whitespace they start with
RECURSIVE Unindented(_)
Unindented(sc) ==
  IF sc # <<>> /\ Head(sc).char \in Whitespace THEN Unindented(Tail(sc)) ELSE sc

\* The Lines from the n-th produced on account for the styled characters
\* `rest`: each Line holds, in order and in their styles, the characters
\* that come next once the whitespace at the start of the Line is dropped,
\* and nothing is left after the last Line.
RECURSIVE Accounts(_, _)
Accounts(rest, n) ==
  IF n > Len(produced) THEN Unindented(rest) = <<>>
  ELSE LET here == Styled(Tail(NthProduced(n)))
           left == Unindented(rest)
       IN /\ Len(here) <= Len(left)
          /\ SubSeq(left, 1, Len(here)) = here
          /\ Accounts(SubSeq(left, Len(here) + 1, Len(left)), n + 1)

\* C17: for every chunk sequence and width w > 2, the text of the
\* non-prefix chunks of the Lines one append produced, in production order,
\* is the text of the input chunks with nothing removed but whitespace at
\* the start of a Line, and every fragment has the style of the chunk it
\* came from.
C17_ContentPreserved ==
  (call.at = "returned" /\ msgbox_w > 2) =>
    /\ Accounts(Styled(call.chunks), 1)
    /\ \A n \in 1..Len(produced) : \A j \in 2..Len(NthProduced(n)) :
         \E c \in 1..Len(call.chunks) :
           NthProduced(n)[j].style = call.chunks[c].style

\* C17 (witness): a bold chunk and a plain chunk were wrapped over several
\* Lines and whitespace was dropped at a Line start
C17_Witness ==
  /\ call.at = "returned"
  /\ msgbox_w > 2
  /\ Len(call.chunks) = 2
  /\ call.chunks[1].style = A_BOLD
  /\ call.chunks[2].style = A_NORMAL
  /\ call.chunks[1].text # <<>>
  /\ call.chunks[2].text # <<>>
  /\ Len(produced) >= 2
  /\ \E n \in 2..Len(produced) :
       Len(Styled(Tail(NthProduced(n)))) > 0
  /\ Len(Styled(call.chunks)) >
       Len(Styled(Tail(NthProduced(1)))) + Len(Styled(Tail(NthProduced(2))))
         + (IF Len(produced) >= 3 THEN Len(Styled(Tail(NthProduced(3)))) ELSE 0)
  /\ Len(produced) <= 3

-----------------------------------------------------------------------------
(* Rendering what append produced (SpecMsg) *)

\* C18: a render at paging offset 0 runs to its end without an error on
\* every scrollback append can produce, empty chunks and remainders of
\* whitespace included.
C18_RenderCompletes ==
  (msgbox_history_index = 0 /\ screen # BlankScreen) => ~screen.error

-----------------------------------------------------------------------------
(* Termination of append (SpecPlainFair) *)

\* a pass of the wrapping loop that does not finish the phrase shortens it,
\* or leaves a line already written on for a fresh one with the phrase
\* intact (from where the next pass finishes or shortens it)
C19_Progress ==
  (WrapPass /\ msgbox_w > 2 /\ call'.at = "loop") =>
    \/ Len(call'.phrase) < Len(call.phrase)
    \/ /\ call.line_position > 2
       /\ call'.line_position = 2
       /\ call'.phrase = call.phrase

\* an append that was entered on a width above 2 returns or raises
C19_Ends ==
  (msgbox_w > 2 /\ call.at \in {"fetch", "loop"})
    ~> (call.at \in {"returned", "raised"})

\* C19: for every width w > 2 and every finite sequence of finite chunks
\* append terminates; each pass of the wrapping loop finishes the phrase or
\* strictly shortens it within at most two passes.
C19_AppendTerminates == C19_Ends /\ [][C19_Progress]_vars

\* C19 (witness): an append on a width above 2 has returned after a pass
\* that emitted nothing and carried its whole phrase to a fresh Line
C19_Witness ==
  /\ msgbox_w > 2
  /\ call.at = "returned"
  /\ Len(call.chunks) = 2
  /\ \E n \in 1..(Len(produced) - 1) :
       /\ Len(NthProduced(n)) = 2
       /\ Len(NthProduced(n)[2].text) < msgbox_w - 2
       /\ Len(NthProduced(n + 1)) = 2
       /\ NthProduced(n + 1)[2].text = call.chunks[2].text

-----------------------------------------------------------------------------
(* Paging by whole pages (SpecPage) *)

\* history_index after n calls of page_down
RECURSIVE PagedDown(_, _)
PagedDown(index, n) ==
  IF n = 0 THEN index ELSE PagedDown(PageDownIndex(index), n - 1)

\* the paging offset is a multiple of page_size and, unless 0, below the
\* size of the scrollback; page_down repeated reaches offset 0
C20_Aligned ==
  /\ \E n \in 0..Len(msgbox_history) : msgbox_history_index = n * PageSize
  /\ msgbox_history_index # 0 => msgbox_history_index < Len(msgbox_history)
  /\ PagedDown(msgbox_history_index, msgbox_history_index) = 0

\* page_down right after a page_up that moved the offset puts it back
C20_Restores ==
  (MsgPageUp /\ msgbox_history_index' # msgbox_history_index)
    => PageDownIndex(msgbox_history_index') = msgbox_history_index

\* C20: after any interleaving of append, page_up and page_down the paging
\* offset is a multiple of page_size and, when not 0, strictly below the
\* scrollback size; a page_down directly after a page_up that took effect
\* restores the offset, and repeated page_down reaches offset 0.
C20_PageAligned == []C20_Aligned /\ [][C20_Restores]_vars

\* C20 (witness): with pages of two Lines the panel has been paged up
\* twice, to offset 4
C20_Witness ==
  /\ PageSize = 2
  /\ msgbox_history_index = 2 * PageSize
  /\ screen.paging

-----------------------------------------------------------------------------
(* Every Line can be paged to (SpecPanel) *)

\* the paging offsets page_up goes through from the given one
RECURSIVE OffsetsFrom(_, _)
OffsetsFrom(size, index) ==
  LET next == PageUpIndex(size, index)
  IN IF next = index THEN {index} ELSE {index} \cup OffsetsFrom(size, next)

\* the paging offsets page_up reaches from offset 0
Offsets(size) == OffsetsFrom(size, 0)

\* the offset at which page_up stops
LastOffset(size) ==
  CHOOSE o \in Offsets(size) : PageUpIndex(size, o) = o

\* the indices into history draw goes through at an offset:
\* i + history_index for i in range(0, lines_to_print)
Window(size, index) ==
  LET compensate_paging == IF index # 0 THEN 1 ELSE 0
      lines_to_print == Min(msgbox_h - compensate_paging, size - index)
  IN {i + index : i \in 0..(lines_to_print - 1)}

\* the Lines draw puts on the rows of the panel
OnPanel(drawn) ==
  {drawn.rows[r].line : r \in {r \in 1..Len(drawn.rows) :
                                 drawn.rows[r].row \in 0..(msgbox_h - 1)}}

\* a draw that finishes puts the Lines of its window on the panel
WindowDrawn(hist, index) ==
  LET drawn == Draw(hist, index)
  IN ~drawn.error => OnPanel(drawn) = Window(Len(hist), index)

\* the windows of two consecutive offsets leave no Line out between them
NoGap(size, offsets) ==
  \A o \in offsets :
    LET next == PageUpIndex(size, o)
    IN next # o =>
         \A l \in o..next : l \in Window(size, o) \cup Window(size, next)

\* C21: for a message panel of height at least 3, every Line currently in
\* the scrollback, the oldest included, is inside the rendered window at
\* some paging offset reachable from offset 0 by repeated page_up; no Line
\* is skipped between two consecutive pages or left beyond the last page.
C21_EveryLinePaged ==
  msgbox_h >= 3 =>
    LET size == Len(msgbox_history)
        offsets == Offsets(size)
    IN /\ UNION {Window(size, o) : o \in offsets} = 0..(size - 1)
       /\ \A o \in offsets : WindowDrawn(msgbox_history, o)
       /\ NoGap(size, offsets)
       /\ size > 0 => (size - 1) \in Window(size, LastOffset(size))

\* C21 (witness): a scrollback longer than the panel is high has been paged
\* up as far as page_up goes, and the oldest Line, outside the window at
\* offset 0, is on the panel
C21_Witness ==
  /\ msgbox_h >= 3
  /\ Len(msgbox_history) > msgbox_h
  /\ msgbox_history_index = LastOffset(Len(msgbox_history))
  /\ screen = Draw(msgbox_history, msgbox_history_index)
  /\ ~screen.error
  /\ (Len(msgbox_history) - 1) \in OnPanel(screen)
  /\ (Len(msgbox_history) - 1) \notin Window(Len(msgbox_history), 0)

====
